---- MODULE Spec2Model ----
(***************************************************************************)
(* Model of napi/transform/src/options.rs: the conversions from the        *)
(* binding-side option objects (every field optional, enums as strings,    *)
(* unions as Either) to the transformer's option structs.                  *)
(*                                                                         *)
(* Option<T> is a set with at most one element, Either<A, B> a tagged      *)
(* record, a String a TLA+ string, an enum variant a capitalised string    *)
(* ("Classic") that no input token ("classic") equals.                     *)
(***************************************************************************)
EXTENDS Naturals, Sequences, FiniteSets

VARIABLES process_cwd, pc, fn, arg, ret

vars == <<process_cwd, pc, fn, arg, ret>>

----------------------------------------------------------------------------
(* The fields of the structs *)

ResolvedFields == {"transform", "sourcemap"}

TransformOptionsFields ==
    {"source_type", "cwd", "typescript", "react", "es2015", "sourcemap"}

TransformerOptionsFields == {"cwd", "typescript", "react", "es2015", "others"}

PathBufFields == {"inner"}

TypeScriptOptionsFields ==
    {"jsx_pragma", "jsx_pragma_frag", "only_remove_type_imports", "allow_namespaces",
     "allow_declare_fields", "declaration", "rewrite_import_extensions"}

TransformerTypeScriptOptionsFields ==
    {"jsx_pragma", "jsx_pragma_frag", "only_remove_type_imports", "allow_namespaces",
     "allow_declare_fields", "optimize_const_enums", "rewrite_import_extensions"}

JsxOptionsFields ==
    {"runtime", "development", "throw_if_namespace", "pure", "import_source", "pragma",
     "pragma_frag", "use_built_ins", "use_spread", "refresh"}

\* plugins stands for the fields ..Default::default() fills
TransformerJsxOptionsFields == JsxOptionsFields \cup {"plugins"}

ReactRefreshOptionsFields == {"refresh_reg", "refresh_sig", "emit_full_signatures"}

ArrowFunctionsOptionsFields == {"spec"}

ES2015OptionsFields == {"arrow_function"}

----------------------------------------------------------------------------
(* Bounds of the input space *)

\* how many strings that are no token of any enum the inputs draw from
NumUnrecognized == 5

\* how many paths the cwd field draws from
NumPaths == 2

----------------------------------------------------------------------------
(* Option and Either *)

None == {}

Some(x) == {x}

Unwrap(o) == CHOOSE x \in o : TRUE

UnwrapOr(o, default) == IF o = None THEN default ELSE Unwrap(o)

Opt(S) == {None} \cup {Some(x) : x \in S}

EitherA(x) == [tag |-> "A", a |-> x]

EitherB(y) == [tag |-> "B", b |-> y]

----------------------------------------------------------------------------
(* Paths *)

PathBufFrom(s) == [inner |-> s]

PathBufDefault == PathBufFrom("")

----------------------------------------------------------------------------
(* The transformer's enums and defaults *)

JsxRuntime == {"Classic", "Automatic"}

RewriteExtensionsMode == {"Rewrite", "Remove"}

OthersDefault == "default"

TypeScriptOptionsDefault ==
    [jsx_pragma |-> "React.createElement",
     jsx_pragma_frag |-> "React.Fragment",
     only_remove_type_imports |-> FALSE,
     allow_namespaces |-> TRUE,
     allow_declare_fields |-> TRUE,
     optimize_const_enums |-> FALSE,
     rewrite_import_extensions |-> None]

ReactRefreshOptionsDefault ==
    [refresh_reg |-> "$RefreshReg$",
     refresh_sig |-> "$RefreshSig$",
     emit_full_signatures |-> FALSE]

JsxOptionsDefault ==
    [runtime |-> "Automatic",
     development |-> FALSE,
     throw_if_namespace |-> TRUE,
     pure |-> TRUE,
     import_source |-> None,
     pragma |-> None,
     pragma_frag |-> None,
     use_built_ins |-> None,
     use_spread |-> None,
     refresh |-> None,
     plugins |-> OthersDefault]

ES2015OptionsDefault == [arrow_function |-> None]

----------------------------------------------------------------------------
(* impl From<ReactRefreshOptions> for oxc_transformer::ReactRefreshOptions *)

FromReactRefreshOptionsSigFromReg(options) ==
    LET ops == ReactRefreshOptionsDefault IN
    [refresh_reg |-> UnwrapOr(options.refresh_reg, ops.refresh_reg),
     refresh_sig |-> UnwrapOr(options.refresh_reg, ops.refresh_sig),
     emit_full_signatures |->
         UnwrapOr(options.emit_full_signatures, ops.emit_full_signatures)]

FromReactRefreshOptions(options) ==
    LET ops == ReactRefreshOptionsDefault IN
    [refresh_reg |-> UnwrapOr(options.refresh_reg, ops.refresh_reg),
     refresh_sig |-> UnwrapOr(options.refresh_sig, ops.refresh_sig),
     emit_full_signatures |->
         UnwrapOr(options.emit_full_signatures, ops.emit_full_signatures)]

----------------------------------------------------------------------------
(* impl From<ArrowFunctionsBindingOptions> for ArrowFunctionsOptions *)

FromArrowFunctionsBindingOptions(options) ==
    [spec |-> UnwrapOr(options.spec, FALSE)]

(* impl From<ES2015BindingOptions> for ES2015Options *)

FromES2015BindingOptionsAlwaysSome(options) ==
    [arrow_function |->
        Some(UnwrapOr({FromArrowFunctionsBindingOptions(a) : a \in options.arrow_function},
                      [spec |-> FALSE]))]

FromES2015BindingOptions(options) ==
    [arrow_function |->
        {FromArrowFunctionsBindingOptions(a) : a \in options.arrow_function}]

----------------------------------------------------------------------------
(* impl From<TypeScriptOptions> for oxc_transformer::TypeScriptOptions *)

RewriteImportExtensionsAnyBool(value) ==
    IF value.tag = "A"
    THEN Some("Rewrite")
    ELSE CASE value.b = "rewrite" -> Some("Rewrite")
           [] value.b = "remove" -> Some("Remove")
           [] OTHER -> None

\* the closure of and_then: Either<bool, String> -> Option<RewriteExtensionsMode>
RewriteImportExtensions(value) ==
    IF value.tag = "A"
    THEN IF value.a THEN Some("Rewrite") ELSE None
    ELSE CASE value.b = "rewrite" -> Some("Rewrite")
           [] value.b = "remove" -> Some("Remove")
           [] OTHER -> None

FromTypeScriptOptionsConstEnums(options) ==
    LET ops == TypeScriptOptionsDefault IN
    [jsx_pragma |-> UnwrapOr(options.jsx_pragma, ops.jsx_pragma),
     jsx_pragma_frag |-> UnwrapOr(options.jsx_pragma_frag, ops.jsx_pragma_frag),
     only_remove_type_imports |->
         UnwrapOr(options.only_remove_type_imports, ops.only_remove_type_imports),
     allow_namespaces |-> UnwrapOr(options.allow_namespaces, ops.allow_namespaces),
     allow_declare_fields |->
         UnwrapOr(options.allow_declare_fields, ops.allow_declare_fields),
     optimize_const_enums |->
         UnwrapOr(options.only_remove_type_imports, ops.optimize_const_enums),
     rewrite_import_extensions |->
         UNION {RewriteImportExtensions(v) : v \in options.rewrite_import_extensions}]

FromTypeScriptOptions(options) ==
    LET ops == TypeScriptOptionsDefault IN
    [jsx_pragma |-> UnwrapOr(options.jsx_pragma, ops.jsx_pragma),
     jsx_pragma_frag |-> UnwrapOr(options.jsx_pragma_frag, ops.jsx_pragma_frag),
     only_remove_type_imports |->
         UnwrapOr(options.only_remove_type_imports, ops.only_remove_type_imports),
     allow_namespaces |-> UnwrapOr(options.allow_namespaces, ops.allow_namespaces),
     allow_declare_fields |->
         UnwrapOr(options.allow_declare_fields, ops.allow_declare_fields),
     optimize_const_enums |-> FALSE,
     rewrite_import_extensions |->
         UNION {RewriteImportExtensions(v) : v \in options.rewrite_import_extensions}]

----------------------------------------------------------------------------
(* impl From<JsxOptions> for oxc_transformer::JsxOptions *)

JsxRuntimeFromIgnoreCase(runtime) ==
    IF runtime \in {Some("classic"), Some("Classic"), Some("CLASSIC")}
    THEN "Classic"
    ELSE "Automatic"

JsxRuntimeFromStrict(runtime) ==
    CASE runtime = Some("classic") -> "Classic"
      [] runtime \in {None, Some("automatic")} -> "Automatic"
      [] OTHER -> "Error"

\* match options.runtime.as_deref()
JsxRuntimeFrom(runtime) ==
    IF runtime = Some("classic") THEN "Classic" ELSE "Automatic"

\* the closure of and_then: Either<bool, ReactRefreshOptions> -> Option<ReactRefreshOptions>
RefreshFrom(value) ==
    IF value.tag = "A"
    THEN IF value.a THEN Some(ReactRefreshOptionsDefault) ELSE None
    ELSE Some(FromReactRefreshOptions(value.b))

FromJsxOptionsSwapPragma(options) ==
    LET ops == JsxOptionsDefault IN
    [runtime |-> JsxRuntimeFrom(options.runtime),
     development |-> UnwrapOr(options.development, ops.development),
     throw_if_namespace |-> UnwrapOr(options.throw_if_namespace, ops.throw_if_namespace),
     pure |-> UnwrapOr(options.pure, ops.pure),
     import_source |-> options.import_source,
     pragma |-> options.pragma_frag,
     pragma_frag |-> options.pragma,
     use_built_ins |-> options.use_built_ins,
     use_spread |-> options.use_spread,
     refresh |-> UNION {RefreshFrom(v) : v \in options.refresh},
     plugins |-> ops.plugins]

FromJsxOptions(options) ==
    LET ops == JsxOptionsDefault IN
    [runtime |-> JsxRuntimeFrom(options.runtime),
     development |-> UnwrapOr(options.development, ops.development),
     throw_if_namespace |-> UnwrapOr(options.throw_if_namespace, ops.throw_if_namespace),
     pure |-> UnwrapOr(options.pure, ops.pure),
     import_source |-> options.import_source,
     pragma |-> options.pragma,
     pragma_frag |-> options.pragma_frag,
     use_built_ins |-> options.use_built_ins,
     use_spread |-> options.use_spread,
     refresh |-> UNION {RefreshFrom(v) : v \in options.refresh},
     plugins |-> ops.plugins]

----------------------------------------------------------------------------
(* impl From<TransformOptions> for oxc_transformer::TransformOptions *)

CwdFromDot(cwd) == UnwrapOr({PathBufFrom(c) : c \in cwd}, PathBufFrom("."))

CwdFromIgnored(cwd) == PathBufDefault

\* options.cwd.map(PathBuf::from).unwrap_or_default()
CwdFrom(cwd) == UnwrapOr({PathBufFrom(c) : c \in cwd}, PathBufDefault)

FromTransformOptions(options) ==
    [cwd |-> CwdFrom(options.cwd),
     typescript |->
         UnwrapOr({FromTypeScriptOptions(t) : t \in options.typescript},
                  TypeScriptOptionsDefault),
     react |->
         UnwrapOr({FromJsxOptions(j) : j \in options.react}, JsxOptionsDefault),
     es2015 |->
         UnwrapOr({FromES2015BindingOptions(e) : e \in options.es2015},
                  ES2015OptionsDefault),
     others |-> OthersDefault]

SourcemapIsSome(options) == options.sourcemap # None

\* the sourcemap flag the caller of the conversion reads from the same object
Sourcemap(options) == UnwrapOr(options.sourcemap, FALSE)

\* what one transform call resolves from its options object
Resolve(options) ==
    [sourcemap |-> Sourcemap(options), transform |-> FromTransformOptions(options)]

----------------------------------------------------------------------------
(* The values the callers pass *)

\* the tokens the enum-string fields recognise
Tokens == {"classic", "automatic", "rewrite", "remove"}

UnrecognizedPool == <<"AUTOMATIC", "Classic", "bogus", "", "REWRITE", "Remove", "auto">>

Unrecognized == {UnrecognizedPool[i] : i \in 1..NumUnrecognized}

\* what a caller may put in an enum-string field
Strings == Tokens \cup Unrecognized

PathPool == <<"/srv/app", "packages/web", "/home/ci", "..">>

Paths == {PathPool[i] : i \in 1..NumPaths}

\* the directories the process may be running in
ProcessCwds == {"/srv/app", "/home/ci"}

OptBool == Opt(BOOLEAN)

ReactRefreshInputs ==
    [refresh_reg : Opt({"$Custom$"}),
     refresh_sig : Opt({"$Sig$"}),
     emit_full_signatures : OptBool]

RefreshInputs ==
    Opt({EitherA(b) : b \in BOOLEAN} \cup {EitherB(r) : r \in ReactRefreshInputs})

RewriteInputs ==
    Opt({EitherA(b) : b \in BOOLEAN} \cup {EitherB(v) : v \in Strings})

TypeScriptInputs ==
    [jsx_pragma : Opt({"h"}),
     jsx_pragma_frag : Opt({"Fragment"}),
     only_remove_type_imports : OptBool,
     allow_namespaces : OptBool,
     allow_declare_fields : OptBool,
     rewrite_import_extensions : RewriteInputs,
     declaration : Opt({"declaration"})]

JsxInputs ==
    [runtime : Opt(Strings),
     development : OptBool,
     throw_if_namespace : OptBool,
     pure : OptBool,
     import_source : Opt({"preact"}),
     pragma : Opt({"h"}),
     pragma_frag : Opt({"Fragment"}),
     use_built_ins : OptBool,
     use_spread : OptBool,
     refresh : RefreshInputs]

ArrowFunctionsInputs == [spec : OptBool]

ES2015Inputs == [arrow_function : Opt(ArrowFunctionsInputs)]

\* the sections a whole options object is tried with: every value of the enum and
\* union fields, with the other fields either all left out or all given
TypeScriptSections ==
    {t \in TypeScriptInputs :
        \/ /\ t.jsx_pragma = None /\ t.jsx_pragma_frag = None
           /\ t.only_remove_type_imports = None /\ t.allow_namespaces = None
           /\ t.allow_declare_fields = None /\ t.declaration = None
        \/ /\ t.jsx_pragma # None /\ t.jsx_pragma_frag # None
           /\ t.only_remove_type_imports = Some(TRUE) /\ t.allow_namespaces = Some(FALSE)
           /\ t.allow_declare_fields = Some(FALSE) /\ t.declaration # None}

JsxSections ==
    {j \in [runtime : Opt(Strings),
            development : {None, Some(TRUE)},
            throw_if_namespace : {None, Some(FALSE)},
            pure : {None, Some(FALSE)},
            import_source : Opt({"preact"}),
            pragma : Opt({"h"}),
            pragma_frag : Opt({"Fragment"}),
            use_built_ins : {None, Some(TRUE)},
            use_spread : {None, Some(FALSE)},
            refresh : {None, Some(EitherA(TRUE)), Some(EitherA(FALSE)),
                       Some(EitherB([refresh_reg |-> None, refresh_sig |-> None,
                                     emit_full_signatures |-> None])),
                       Some(EitherB([refresh_reg |-> Some("$Custom$"),
                                     refresh_sig |-> Some("$Sig$"),
                                     emit_full_signatures |-> Some(TRUE)]))}] :
        \/ /\ j.development = None /\ j.throw_if_namespace = None /\ j.pure = None
           /\ j.import_source = None /\ j.pragma = None /\ j.pragma_frag = None
           /\ j.use_built_ins = None /\ j.use_spread = None
        \/ /\ j.development # None /\ j.throw_if_namespace # None /\ j.pure # None
           /\ j.import_source # None /\ j.pragma # None /\ j.pragma_frag = None
           /\ j.use_built_ins # None /\ j.use_spread # None}

TransformInputs ==
    [cwd : Opt(Paths),
     typescript : Opt(TypeScriptSections),
     react : Opt(JsxSections),
     es2015 : Opt(ES2015Inputs),
     sourcemap : OptBool,
     source_type : {None}]  \* read by no conversion

----------------------------------------------------------------------------
(* One conversion per call: the caller hands over an options object (arg),  *)
(* the conversion named fn returns the transformer's struct (ret).          *)

Init ==
    /\ process_cwd \in ProcessCwds
    /\ pc = "idle"
    /\ fn = "none"
    /\ arg = None
    /\ ret = None

Call(name, options, result) ==
    /\ pc' = "done"
    /\ fn' = name
    /\ arg' = options
    /\ ret' = result
    /\ UNCHANGED process_cwd

Transform ==
    /\ pc = "idle"
    /\ \E options \in TransformInputs :
        Call("TransformOptions", options, Resolve(options))

ConvertTypeScript ==
    /\ pc = "idle"
    /\ \E options \in TypeScriptInputs :
        Call("TypeScriptOptions", options, FromTypeScriptOptions(options))

ConvertJsx ==
    /\ pc = "idle"
    /\ \E options \in JsxInputs :
        Call("JsxOptions", options, FromJsxOptions(options))

ConvertReactRefresh ==
    /\ pc = "idle"
    /\ \E options \in ReactRefreshInputs :
        Call("ReactRefreshOptions", options, FromReactRefreshOptions(options))

ConvertArrowFunctions ==
    /\ pc = "idle"
    /\ \E options \in ArrowFunctionsInputs :
        Call("ArrowFunctionsBindingOptions", options,
             FromArrowFunctionsBindingOptions(options))

ConvertES2015 ==
    /\ pc = "idle"
    /\ \E options \in ES2015Inputs :
        Call("ES2015BindingOptions", options, FromES2015BindingOptions(options))

\* the converted struct is consumed and the next call may start
Return ==
    /\ pc = "done"
    /\ pc' = "idle"
    /\ fn' = "none"
    /\ arg' = None
    /\ ret' = None
    /\ UNCHANGED process_cwd

Next ==
    \/ Transform
    \/ ConvertTypeScript
    \/ ConvertJsx
    \/ ConvertReactRefresh
    \/ ConvertArrowFunctions
    \/ ConvertES2015
    \/ Return

Spec == Init /\ [][Next]_vars

----------------------------------------------------------------------------
(* Properties *)

Done(name) == pc = "done" /\ fn = name

TransformDone == Done("TransformOptions")

EmptyOptions ==
    [cwd |-> None, typescript |-> None, react |-> None, es2015 |-> None,
     sourcemap |-> None, source_type |-> None]

\* what the empty options object resolves to, the cwd apart
EmptyResolvesToDefaults ==
    /\ ret.transform.typescript = TypeScriptOptionsDefault
    /\ ret.transform.react = JsxOptionsDefault
    /\ ret.transform.es2015 = ES2015OptionsDefault
    /\ ret.transform.react.runtime = "Automatic"
    /\ ret.sourcemap = FALSE
    /\ ret.transform.typescript.rewrite_import_extensions = None
    /\ ret.transform.react.refresh = None

\* C1 as stated: the empty options object resolves to the all-defaults
\* configuration with cwd = the process's current directory, runtime Automatic,
\* sourcemap false, no rewrite_import_extensions and no refresh.
C1_EmptyIsDefaultsWithProcessCwd ==
    (TransformDone /\ arg = EmptyOptions) =>
        /\ ret.transform.cwd = PathBufFrom(process_cwd)
        /\ EmptyResolvesToDefaults

\* C1 amended: the empty options object resolves to the all-defaults
\* configuration, whose cwd is the empty path (PathBuf::default()), with runtime
\* Automatic, sourcemap false, no rewrite_import_extensions and no refresh.
C1_EmptyIsDefaultsWithEmptyCwd ==
    (TransformDone /\ arg = EmptyOptions) =>
        /\ ret.transform.cwd = PathBufDefault
        /\ EmptyResolvesToDefaults

C1_Witness ==
    /\ TransformDone
    /\ arg = EmptyOptions
    /\ ret.transform.cwd.inner = ""
    /\ ret.transform.cwd.inner # process_cwd

\* the outcome C2 states for each value of rewriteImportExtensions
RewriteExpected(field) ==
    CASE field = None -> None
      [] field = Some(EitherA(TRUE)) -> Some("Rewrite")
      [] field = Some(EitherA(FALSE)) -> None
      [] field = Some(EitherB("rewrite")) -> Some("Rewrite")
      [] field = Some(EitherB("remove")) -> Some("Remove")
      [] OTHER -> None

\* C2: rewriteImportExtensions resolves true -> Rewrite, false -> absent,
\* "rewrite" -> Rewrite, "remove" -> Remove, any other string -> absent, field
\* absent -> absent; the outcome is always one of Rewrite, Remove and absent.
C2_RewriteImportExtensions ==
    Done("TypeScriptOptions") =>
        /\ ret.rewrite_import_extensions = RewriteExpected(arg.rewrite_import_extensions)
        /\ ret.rewrite_import_extensions \in Opt(RewriteExtensionsMode)

C2_Witness ==
    /\ Done("TypeScriptOptions")
    /\ arg.rewrite_import_extensions = Some(EitherB("REWRITE"))
    /\ ret.rewrite_import_extensions = None

\* C3: the runtime resolves to Classic exactly when the input is the string
\* "classic"; every other input, absent included, resolves to Automatic.
C3_RuntimeClassicIffToken ==
    Done("JsxOptions") =>
        /\ ret.runtime = "Classic" <=> arg.runtime = Some("classic")
        /\ ret.runtime # "Classic" => ret.runtime = "Automatic"

C3_Witness ==
    /\ Done("JsxOptions")
    /\ arg.runtime = Some("Classic")
    /\ ret.runtime = "Automatic"

\* the refresh config C4 states for a refresh object
RefreshObjectExpected(r) ==
    [refresh_reg |-> IF r.refresh_reg = None THEN "$RefreshReg$" ELSE Unwrap(r.refresh_reg),
     refresh_sig |-> IF r.refresh_sig = None THEN "$RefreshSig$" ELSE Unwrap(r.refresh_sig),
     emit_full_signatures |->
         IF r.emit_full_signatures = None THEN FALSE ELSE Unwrap(r.emit_full_signatures)]

EmptyRefreshObject ==
    [refresh_reg |-> None, refresh_sig |-> None, emit_full_signatures |-> None]

\* C4: refresh absent or false gives no refresh config; true gives the all-default
\* config; an object gives each field its supplied value, or its default when the
\* field is absent, so that true and {} resolve alike.
C4_Refresh ==
    Done("JsxOptions") =>
        LET field == arg.refresh IN
        /\ field \in {None, Some(EitherA(FALSE))} => ret.refresh = None
        /\ field = Some(EitherA(TRUE)) =>
               ret.refresh = Some(RefreshObjectExpected(EmptyRefreshObject))
        /\ (field # None /\ Unwrap(field).tag = "B") =>
               ret.refresh = Some(RefreshObjectExpected(Unwrap(field).b))

C4_Witness ==
    /\ Done("JsxOptions")
    /\ arg.refresh = Some(EitherB([refresh_reg |-> Some("$Custom$"), refresh_sig |-> None,
                                   emit_full_signatures |-> None]))
    /\ ret.refresh = Some([refresh_reg |-> "$Custom$", refresh_sig |-> "$RefreshSig$",
                           emit_full_signatures |-> FALSE])

\* C5: whatever options object is resolved, with or without a typescript
\* section, the resolved typescript.optimize_const_enums is false.
C5_OptimizeConstEnumsFalse ==
    /\ TransformDone => ret.transform.typescript.optimize_const_enums = FALSE
    /\ Done("TypeScriptOptions") => ret.optimize_const_enums = FALSE

C5_Witness ==
    /\ TransformDone
    /\ arg.typescript # None
    /\ Unwrap(arg.typescript).only_remove_type_imports = Some(TRUE)
    /\ ret.transform.typescript.only_remove_type_imports = TRUE
    /\ ret.transform.typescript.optimize_const_enums = FALSE

C7_CwdGivenOrProcessCwd ==
    TransformDone =>
        ret.transform.cwd =
            IF arg.cwd = None THEN PathBufFrom(process_cwd)
            ELSE PathBufFrom(Unwrap(arg.cwd))

\* C7 amended: the resolved cwd is the given path when cwd is present and the
\* empty path (PathBuf::default()) when it is absent.
C7_CwdGivenOrEmpty ==
    TransformDone =>
        ret.transform.cwd =
            IF arg.cwd = None THEN PathBufFrom("")
            ELSE PathBufFrom(Unwrap(arg.cwd))

C7_Witness ==
    /\ TransformDone
    /\ arg.cwd = None
    /\ arg.sourcemap = Some(TRUE)
    /\ ret.transform.cwd = PathBufFrom("")
    /\ ret.transform.cwd # PathBufFrom(process_cwd)

\* the arrow-function config C8 states for an es2015 section
ArrowExpected(es2015) ==
    IF es2015 = None \/ Unwrap(es2015).arrow_function = None
    THEN None
    ELSE LET spec == Unwrap(Unwrap(es2015).arrow_function).spec IN
         Some([spec |-> IF spec = None THEN FALSE ELSE Unwrap(spec)])

\* C8: an absent arrowFunction (or an absent es2015 section) resolves to no
\* arrow-function config, a present one to a config whose spec is the supplied
\* value, or false when spec is absent; the two results differ.
C8_ArrowFunctionAbsentVsEmpty ==
    /\ TransformDone =>
           ret.transform.es2015.arrow_function = ArrowExpected(arg.es2015)
    /\ Done("ES2015BindingOptions") =>
           ret.arrow_function = ArrowExpected(Some(arg))
    /\ Done("ES2015BindingOptions") =>
           (ret = FromES2015BindingOptions([arrow_function |-> None])
                <=> arg.arrow_function = None)

C8_Witness ==
    /\ TransformDone
    /\ arg.es2015 = Some([arrow_function |-> Some([spec |-> None])])
    /\ ret.transform.es2015.arrow_function = Some([spec |-> FALSE])

\* the string token of an enum variant
RuntimeToken(runtime) == IF runtime = "Classic" THEN "classic" ELSE "automatic"

RewriteToken(mode) == IF mode = "Rewrite" THEN "rewrite" ELSE "remove"

\* a resolved configuration written as an options object, every field given
ReExpress(r) ==
    LET ts == r.transform.typescript
        jsx == r.transform.react
        es == r.transform.es2015
    IN
    [cwd |-> Some(r.transform.cwd.inner),
     typescript |-> Some(
        [jsx_pragma |-> Some(ts.jsx_pragma),
         jsx_pragma_frag |-> Some(ts.jsx_pragma_frag),
         only_remove_type_imports |-> Some(ts.only_remove_type_imports),
         allow_namespaces |-> Some(ts.allow_namespaces),
         allow_declare_fields |-> Some(ts.allow_declare_fields),
         rewrite_import_extensions |->
            IF ts.rewrite_import_extensions = None
            THEN Some(EitherA(FALSE))
            ELSE Some(EitherB(RewriteToken(Unwrap(ts.rewrite_import_extensions)))),
         declaration |-> None]),
     react |-> Some(
        [runtime |-> Some(RuntimeToken(jsx.runtime)),
         development |-> Some(jsx.development),
         throw_if_namespace |-> Some(jsx.throw_if_namespace),
         pure |-> Some(jsx.pure),
         import_source |-> jsx.import_source,
         pragma |-> jsx.pragma,
         pragma_frag |-> jsx.pragma_frag,
         use_built_ins |-> jsx.use_built_ins,
         use_spread |-> jsx.use_spread,
         refresh |->
            IF jsx.refresh = None
            THEN Some(EitherA(FALSE))
            ELSE LET rr == Unwrap(jsx.refresh) IN
                 Some(EitherB([refresh_reg |-> Some(rr.refresh_reg),
                               refresh_sig |-> Some(rr.refresh_sig),
                               emit_full_signatures |-> Some(rr.emit_full_signatures)]))]),
     es2015 |-> Some(
        [arrow_function |-> {[spec |-> Some(a.spec)] : a \in es.arrow_function}]),
     sourcemap |-> Some(r.sourcemap),
     source_type |-> None]

\* C9: a resolved configuration written back as an options object, every field
\* given, resolves to itself.
C9_Idempotent ==
    TransformDone => Resolve(ReExpress(ret)) = ret

C9_Witness ==
    /\ TransformDone
    /\ arg.cwd = None
    /\ arg.sourcemap = None
    /\ arg.typescript # None
    /\ Unwrap(arg.typescript).rewrite_import_extensions = Some(EitherB("remove"))
    /\ arg.react # None
    /\ Unwrap(arg.react).runtime = Some("AUTOMATIC")
    /\ Unwrap(arg.react).pragma = Some("h")
    /\ Unwrap(arg.react).refresh = Some(EitherA(TRUE))
    /\ arg.es2015 = Some([arrow_function |-> Some([spec |-> None])])
    /\ ReExpress(ret) # arg
    /\ Resolve(ReExpress(ret)) = ret

IsString(x) == x \in STRING

IsOption(o, In(_)) == o = None \/ (Cardinality(o) = 1 /\ \A x \in o : In(x))

IsBool(x) == x \in BOOLEAN

IsRewriteMode(x) == x \in RewriteExtensionsMode

IsReactRefresh(r) ==
    /\ DOMAIN r = ReactRefreshOptionsFields
    /\ IsString(r.refresh_reg)
    /\ IsString(r.refresh_sig)
    /\ IsBool(r.emit_full_signatures)

IsArrowFunctions(a) == DOMAIN a = ArrowFunctionsOptionsFields /\ IsBool(a.spec)

IsTypeScript(ts) ==
    /\ DOMAIN ts = TransformerTypeScriptOptionsFields
    /\ IsString(ts.jsx_pragma)
    /\ IsString(ts.jsx_pragma_frag)
    /\ IsBool(ts.only_remove_type_imports)
    /\ IsBool(ts.allow_namespaces)
    /\ IsBool(ts.allow_declare_fields)
    /\ IsBool(ts.optimize_const_enums)
    /\ IsOption(ts.rewrite_import_extensions, IsRewriteMode)

IsJsx(jsx) ==
    /\ DOMAIN jsx = TransformerJsxOptionsFields
    /\ jsx.runtime \in JsxRuntime
    /\ IsBool(jsx.development)
    /\ IsBool(jsx.throw_if_namespace)
    /\ IsBool(jsx.pure)
    /\ IsOption(jsx.import_source, IsString)
    /\ IsOption(jsx.pragma, IsString)
    /\ IsOption(jsx.pragma_frag, IsString)
    /\ IsOption(jsx.use_built_ins, IsBool)
    /\ IsOption(jsx.use_spread, IsBool)
    /\ IsOption(jsx.refresh, IsReactRefresh)
    /\ jsx.plugins = OthersDefault

\* C10: every options object resolves to a configuration, never to an error, in
\* which cwd, typescript, jsx, es2015, sourcemap, the runtime and every
\* defaulted flag hold a value of their domain.
C10_TotalAndPopulated ==
    TransformDone =>
        /\ DOMAIN ret = ResolvedFields
        /\ IsBool(ret.sourcemap)
        /\ DOMAIN ret.transform = TransformerOptionsFields
        /\ DOMAIN ret.transform.cwd = PathBufFields
        /\ IsString(ret.transform.cwd.inner)
        /\ IsTypeScript(ret.transform.typescript)
        /\ IsJsx(ret.transform.react)
        /\ DOMAIN ret.transform.es2015 = ES2015OptionsFields
        /\ IsOption(ret.transform.es2015.arrow_function, IsArrowFunctions)
        /\ ret.transform.others = OthersDefault

C10_Witness ==
    /\ TransformDone
    /\ arg.cwd = None
    /\ arg.es2015 = None
    /\ arg.sourcemap = None
    /\ arg.typescript # None
    /\ Unwrap(arg.typescript).rewrite_import_extensions = Some(EitherB("bogus"))
    /\ arg.react # None
    /\ Unwrap(arg.react).runtime = Some("bogus")
    /\ ret.transform.react.runtime = "Automatic"
    /\ ret.transform.typescript.rewrite_import_extensions = None

====
